---- MODULE Spec2Model ----
(***************************************************************************)
(* fetchEnhanced (js/utils/fetch/fetch.js and its documented copy): a      *)
(* wrapper around the host fetch() with query construction, body           *)
(* serialisation, retry with exponential backoff, timeout/abort and        *)
(* response decoding.                                                      *)
(*                                                                         *)
(* Each invocation owns its locals; the model keeps them per call id:      *)
(*   cfg[c]  the arguments of the call (never changed after the call)      *)
(*   st[c]   the locals of fetchEnhanced and its position (pc)             *)
(*   env[c]  the host side: abort signal, timer, the response in flight    *)
(*   obs[c]  what the caller and the transport observe (requests issued,   *)
(*           sleeps performed, value returned or thrown)                   *)
(***************************************************************************)
EXTENDS Integers, Sequences, FiniteSets, TLC

VARIABLES cfg, st, env, obs

vars == <<cfg, st, env, obs>>

(***************************************************************************)
(* Bounds of the model                                                     *)
(***************************************************************************)
MaxRetries == 2

MaxDelay == 2

MaxTimeout == 3

(***************************************************************************)
(* JavaScript values                                                       *)
(***************************************************************************)
Undefined == "undefined"

\* JS truthiness of a header value / string: undefined and '' are falsy
Truthy(v) == v # Undefined /\ v # ""

\* String.prototype.toUpperCase on the method names used as inputs
toUpperCase(m) ==
  CASE m = "get" -> "GET"
    [] m = "head" -> "HEAD"
    [] m = "post" -> "POST"
    [] m = "put" -> "PUT"
    [] OTHER -> m

(***************************************************************************)
(* URL and query (new URL(url), searchParams.append, toString)             *)
(***************************************************************************)
\* application/x-www-form-urlencoded serialisation of one code point
EncodeChar(ch) ==
  CASE ch = "&" -> "%26"
    [] ch = "=" -> "%3D"
    [] ch = "%" -> "%25"
    [] ch = "+" -> "%2B"
    [] ch = " " -> "+"
    [] OTHER -> ch

\* the serialisation of a character sequence, one token per character
EncodeTokens(cs) == [i \in 1 .. Len(cs) |-> EncodeChar(cs[i])]

\* the string made of a sequence of tokens
RECURSIVE Concat(_)
Concat(tokens) ==
  IF tokens = <<>> THEN "" ELSE Head(tokens) \o Concat(Tail(tokens))

\* a query value as the caller passes it: undefined, or a value whose
\* string conversion is the character sequence s
QUndefined == [t |-> "undefined", s |-> <<>>]

QString(s) == [t |-> "string", s |-> s]

QNull == [t |-> "null", s |-> <<>>]

QFalse == [t |-> "false", s |-> <<>>]

\* the number 0, s being its decimal digits
QZero == [t |-> "number", s |-> <<"0">>]

\* the string conversion searchParams.append applies to a value
ToUSVString(v) ==
  CASE v.t = "null" -> <<"n", "u", "l", "l">>
    [] v.t = "false" -> <<"f", "a", "l", "s", "e">>
    [] OTHER -> v.s

\* JS truthiness of a query value
QueryTruthy(v) == v.t \notin {"undefined", "null", "false"} /\ v.s # <<>> /\ v # QZero

\* the loop appending only truthy values
RECURSIVE AppendQuery_SkipFalsy(_, _)
AppendQuery_SkipFalsy(params, query) ==
  IF query = <<>> THEN params
  ELSE LET e == Head(query)
       IN AppendQuery_SkipFalsy(IF QueryTruthy(e.value)
                                  THEN Append(params, [key |-> e.key, value |-> ToUSVString(e.value)])
                                  ELSE params,
                                Tail(query))

\* Object.entries(query).forEach: append every entry whose value is not undefined
RECURSIVE AppendQuery(_, _)
AppendQuery(params, query) ==
  IF query = <<>> THEN params
  ELSE LET e == Head(query)
       IN AppendQuery(IF e.value # QUndefined
                        THEN Append(params, [key |-> e.key, value |-> ToUSVString(e.value)])
                        ELSE params,
                      Tail(query))

\* URLSearchParams serialisation: name=value pairs joined by &
RECURSIVE ParamTokens(_)
ParamTokens(params) ==
  IF params = <<>> THEN <<>>
  ELSE EncodeTokens(Head(params).key) \o <<"=">> \o EncodeTokens(Head(params).value)
       \o (IF Tail(params) = <<>> THEN <<>> ELSE <<"&">> \o ParamTokens(Tail(params)))

SerializeParams(params) == Concat(ParamTokens(params))

\* URL.prototype.toString
UrlToString(u) ==
  IF u.params = <<>> THEN u.base ELSE u.base \o "?" \o SerializeParams(u.params)

\* lines 18-23: the final URL object
BuildFinalUrl(url, query) ==
  [base |-> url.base, params |-> AppendQuery(url.params, query)]

(***************************************************************************)
(* Request options (lines 26-40)                                           *)
(***************************************************************************)
\* request bodies a caller may pass
BodyNull == [typeof |-> "object", class |-> "null", truthy |-> FALSE, json |-> "null"]

BodyObject == [typeof |-> "object", class |-> "Object", truthy |-> TRUE, json |-> "{\"name\":\"John\"}"]

BodyFormData == [typeof |-> "object", class |-> "FormData", truthy |-> TRUE, json |-> "{}"]

BodyBlob == [typeof |-> "object", class |-> "Blob", truthy |-> TRUE, json |-> "{}"]

BodyString == [typeof |-> "string", class |-> "String", truthy |-> TRUE, json |-> "\"a=1\""]

BodyEmptyString == [typeof |-> "string", class |-> "String", truthy |-> FALSE, json |-> "\"\""]

\* JSON.stringify(body): the text the engine produces for the value
JSONstringify(body) == body.json

\* headers[key] of a plain object
HeaderGet(h, key) == IF key \in DOMAIN h THEN h[key] ELSE Undefined

\* headers[key] = value
HeaderSet(h, key, value) ==
  [k \in DOMAIN h \cup {key} |-> IF k = key THEN value ELSE h[k]]

\* the signal selection with the timeout taking priority over the caller's handle
SelectSignal_TimeoutFirst(signal, timeout) ==
  IF timeout # 0 THEN "timeout" ELSE IF signal THEN "external" ELSE "none"

\* line 29: signal || (timeout ? AbortSignal.timeout(timeout) : null)
SelectSignal(signal, timeout) ==
  IF signal THEN "external" ELSE IF timeout # 0 THEN "timeout" ELSE "none"

\* line 33: body && !['GET','HEAD'].includes(options.method)
BodyAllowed(body, method) == body.truthy /\ method \notin {"GET", "HEAD"}

\* line 34: typeof body === 'object' && !(body instanceof FormData)
IsSerializable(body) == body.typeof = "object" /\ body.class # "FormData"

\* the header assignment without the test of the caller's value
DefaultContentType_Always(h) == "application/json"

\* line 36: options.headers['Content-Type'] || 'application/json'
DefaultContentType(h) ==
  IF Truthy(HeaderGet(h, "Content-Type")) THEN HeaderGet(h, "Content-Type")
  ELSE "application/json"

NoBody == [kind |-> "absent", text |-> "", raw |-> BodyNull]

\* lines 26-40: the options object handed to fetch()
BuildOptions(c) ==
  LET m == toUpperCase(c.method)
      base == [method |-> m, headers |-> c.headers,
               signal |-> SelectSignal(c.signal, c.timeout), body |-> NoBody]
  IN IF BodyAllowed(c.body, m)
       THEN IF IsSerializable(c.body)
              THEN [base EXCEPT
                      !.body = [kind |-> "json", text |-> JSONstringify(c.body), raw |-> BodyNull],
                      !.headers = HeaderSet(c.headers, "Content-Type", DefaultContentType(c.headers))]
              ELSE [base EXCEPT !.body = [kind |-> "raw", text |-> "", raw |-> c.body]]
       ELSE base

(***************************************************************************)
(* Errors                                                                  *)
(***************************************************************************)
\* an error value; url/method/attempt are the properties enhanceError
\* attaches, origin is the attempt whose failure created the value
MkError(class, name, hasStatus, status, data, origin) ==
  [class |-> class, name |-> name, hasStatus |-> hasStatus, status |-> status,
   data |-> data, url |-> Undefined, method |-> Undefined, attempt |-> 0,
   origin |-> origin]

\* let lastError = null (line 42)
NullError == MkError("null", "null", FALSE, 0, "none", 0)

\* lines 133-140: class FetchError
FetchError(status, data, origin) == MkError("FetchError", "FetchError", TRUE, status, data, origin)

\* what the host fetch() rejects with
NetworkError(origin) == MkError("TypeError", "TypeError", FALSE, 0, "none", origin)

GenericError(origin) == MkError("Error", "Error", FALSE, 0, "none", origin)

SyntaxError(origin) == MkError("SyntaxError", "SyntaxError", FALSE, 0, "none", origin)

\* the reason of an aborted signal: controller.abort() gives an AbortError
\* DOMException, AbortSignal.timeout() gives a TimeoutError DOMException
AbortReason(kind, origin) ==
  IF kind = "timeout"
    THEN MkError("DOMException", "TimeoutError", FALSE, 0, "none", origin)
    ELSE MkError("DOMException", "AbortError", FALSE, 0, "none", origin)

\* isFatalError without the 4xx clause
isFatalError_No4xx(error) ==
  \/ error.name = "AbortError"
  \/ error.class = "TypeError"

\* isFatalError with the lower bound of the 4xx range excluded
isFatalError_From401(error) ==
  \/ error.name = "AbortError"
  \/ error.class = "TypeError"
  \/ (error.hasStatus /\ error.status # 0 /\ error.status > 400 /\ error.status < 500)

\* isFatalError without the TypeError clause
isFatalError_NoTypeError(error) ==
  \/ error.name = "AbortError"
  \/ (error.hasStatus /\ error.status # 0 /\ error.status >= 400 /\ error.status < 500)

\* isFatalError taking a syntax error of the body reader for fatal
isFatalError_SyntaxFatal(error) ==
  \/ error.name = "AbortError"
  \/ error.class = "TypeError"
  \/ error.class = "SyntaxError"
  \/ (error.hasStatus /\ error.status # 0 /\ error.status >= 400 /\ error.status < 500)

\* lines 123-127
isFatalError(error) ==
  \/ error.name = "AbortError"
  \/ error.class = "TypeError"
  \/ (error.hasStatus /\ error.status # 0 /\ error.status >= 400 /\ error.status < 500)

\* lines 142-147
enhanceError(error, context) ==
  [error EXCEPT !.url = context.url, !.method = context.method, !.attempt = context.attempt]

\* the method handed to enhanceError: fetch.js line 83 passes the `method`
\* argument, the documented copy (line 176) passes options.method
ContextMethod(variant, method, options) ==
  IF variant = "fetch.js" THEN method ELSE options.method

\* line 12 and caller-supplied status validators
validateStatus(v, status) ==
  CASE v = "default" -> status >= 200 /\ status < 300
    [] v = "only304" -> status = 304
    [] v = "any" -> TRUE

RECURSIVE Pow2(_)
Pow2(n) == IF n <= 0 THEN 1 ELSE 2 * Pow2(n - 1)

\* line 79: retryDelay * Math.pow(2, attempt - 1)
BackoffDelay(retryDelay, attempt) == retryDelay * Pow2(attempt - 1)

\* the retry test with the budget off by one
ShouldRetry_OffByOne(attempt, retries, error) == attempt < retries /\ ~isFatalError(error)

\* the retry test without the budget clause
ShouldRetry_IgnoreBudget(attempt, retries, error) == ~isFatalError(error)

\* line 78: attempt <= retries && !isFatalError(error)
ShouldRetry(attempt, retries, error) == attempt <= retries /\ ~isFatalError(error)

\* line 45: while (attempt <= retries)
LoopGuard(attempt, retries) == attempt <= retries

(***************************************************************************)
(* Response decoding (lines 94-121)                                        *)
(***************************************************************************)
\* the characters of the strings handled by parseResponse
Chars(s) ==
  CASE s = "" -> <<>>
    [] s = "auto" -> <<"a", "u", "t", "o">>
    [] s = "json" -> <<"j", "s", "o", "n">>
    [] s = "text" -> <<"t", "e", "x", "t">>
    [] s = "blob" -> <<"b", "l", "o", "b">>
    [] s = "arraybuffer" -> <<"a", "r", "r", "a", "y", "b", "u", "f", "f", "e", "r">>
    [] s = "octet-stream" -> <<"o", "c", "t", "e", "t", "-", "s", "t", "r", "e", "a", "m">>
    [] s = "application/json" -> <<"a", "p", "p", "l", "i", "c", "a", "t", "i", "o", "n", "/", "j", "s", "o", "n">>
    [] s = "text/plain" -> <<"t", "e", "x", "t", "/", "p", "l", "a", "i", "n">>
    [] s = "text/json" -> <<"t", "e", "x", "t", "/", "j", "s", "o", "n">>
    [] s = "application/octet-stream" -> <<"a", "p", "p", "l", "i", "c", "a", "t", "i", "o", "n", "/", "o", "c", "t", "e", "t", "-", "s", "t", "r", "e", "a", "m">>
    [] s = "image/png" -> <<"i", "m", "a", "g", "e", "/", "p", "n", "g">>
    [] s = "application/json; charset=utf-8" -> <<"a", "p", "p", "l", "i", "c", "a", "t", "i", "o", "n", "/", "j", "s", "o", "n", ";", " ", "c", "h", "a", "r", "s", "e", "t", "=", "u", "t", "f", "-", "8">>

\* String.prototype.includes: needle occurs at some position of type
Includes(type, needle) ==
  LET t == Chars(type)
      n == Chars(needle)
  IN \E i \in 0 .. Len(t) - Len(n) : SubSeq(t, i + 1, i + Len(n)) = n

\* parseResponse with the text test placed before the json test
parseResponse_TextFirst(response, responseType) ==
  LET type == IF responseType = "auto" THEN response.contentType ELSE responseType
  IN IF Includes(type, "text") \/ responseType = "text" THEN "text"
     ELSE IF Includes(type, "json") \/ responseType = "json" THEN "json"
     ELSE IF Includes(type, "octet-stream") \/ responseType = "blob" THEN "blob"
     ELSE "arrayBuffer"

\* lines 94-109: the body reader parseResponse calls
parseResponse(response, responseType) ==
  LET type == IF responseType = "auto" THEN response.contentType ELSE responseType
  IN IF Includes(type, "json") \/ responseType = "json" THEN "json"
     ELSE IF Includes(type, "text") \/ responseType = "text" THEN "text"
     ELSE IF Includes(type, "octet-stream") \/ responseType = "blob" THEN "blob"
     ELSE "arrayBuffer"

\* whether a body reader fulfils: every reader rejects once the signal has
\* aborted or the body has been consumed by an earlier reader (a Response
\* body is one-shot); json() rejects with a SyntaxError on bytes that are
\* not JSON
ReaderFulfils(reader, response, aborted, bodyUsed) ==
  ~aborted /\ ~bodyUsed /\ (reader = "json" => response.body = "json")

\* what parseErrorResponse returns when both readers reject: null in
\* fetch.js (line 118), a message string in the documented copy (line 226)
Placeholder(variant) == IF variant = "fetch.js" THEN "null" ELSE "message"

\* parseErrorResponse without the inner try/catch around text()
parseErrorResponse_NoInnerCatch(response, aborted, variant) ==
  IF ReaderFulfils("json", response, aborted, FALSE) THEN [threw |-> FALSE, data |-> "json"]
  ELSE IF ReaderFulfils("text", response, aborted, TRUE) THEN [threw |-> FALSE, data |-> "text"]
  ELSE [threw |-> TRUE, data |-> "none"]

\* lines 111-121: json(), then text() on the body json() has consumed,
\* then the placeholder
\* threw tells whether a rejection leaves the function, data is its value
parseErrorResponse(response, aborted, variant) ==
  IF ReaderFulfils("json", response, aborted, FALSE) THEN [threw |-> FALSE, data |-> "json"]
  ELSE IF ReaderFulfils("text", response, aborted, TRUE) THEN [threw |-> FALSE, data |-> "text"]
  ELSE [threw |-> FALSE, data |-> Placeholder(variant)]

(***************************************************************************)
(* Inputs                                                                  *)
(***************************************************************************)
NoHeaders == [k \in {} |-> ""]

UrlPlain == [base |-> "https://api.example.com/data", params |-> <<>>]

QueryRef == << [key |-> <<"r", "e", "f">>, value |-> QString(<<"a", "p", "p">>)] >>

Statuses == {0, 200, 304, 399, 400, 404, 499, 500, 503}

Responses ==
  [status : Statuses, contentType : {"application/json"}, body : {"json", "text"}]

Validators == {"default", "only304", "any"}

Variants == {"fetch.js", "part_000"}

\* the configurations of the retry loop
RetryConfigs ==
  [url : {UrlPlain}, method : {"GET", "post"}, headers : {NoHeaders},
   body : {BodyNull}, query : {QueryRef},
   retries : -1 .. MaxRetries, retryDelay : 1 .. MaxDelay,
   timeout : {0, MaxTimeout}, responseType : {"auto"},
   validateStatus : Validators, signal : BOOLEAN, variant : Variants]

(***************************************************************************)
(* State                                                                   *)
(***************************************************************************)
Calls == DOMAIN cfg

NoResponse == [status |-> 0, contentType |-> "", body |-> "none"]

NoOptions == [method |-> Undefined, headers |-> NoHeaders, signal |-> "none", body |-> NoBody]

NoResult == [kind |-> "none", error |-> NullError, reader |-> "none", attempt |-> 0]

InitSt == [pc |-> "start", finalUrl |-> UrlPlain, options |-> NoOptions,
           attempt |-> 0, lastError |-> NullError]

InitEnv == [aborted |-> FALSE, elapsed |-> 0, response |-> NoResponse]

\* startedAt: the reading of the timer of line 29 when the current attempt began
\* cancelledInSleep: the attempt after whose failure the call was sleeping
\* when its signal aborted, 0 when the signal did not abort during a sleep
InitObs == [requests |-> 0, sleeps |-> <<>>, thrown |-> 0, result |-> NoResult,
            sentUrl |-> Undefined, failure |-> NullError, startedAt |-> 0,
            cancelledInSleep |-> 0]

\* the invocations `ids` have been made, none has run yet
InitFor(ids, configs) ==
  /\ cfg \in [ids -> configs]
  /\ st = [c \in ids |-> InitSt]
  /\ env = [c \in ids |-> InitEnv]
  /\ obs = [c \in ids |-> InitObs]

InitWith(configs) == InitFor({1}, configs)

Init == InitWith(RetryConfigs)

\* the signal in options has aborted: the caller's controller was aborted,
\* or the timer armed at line 29 has run for `timeout`
SignalAborted(c) ==
  \/ st[c].options.signal = "external" /\ env[c].aborted
  \/ st[c].options.signal = "timeout" /\ env[c].elapsed >= cfg[c].timeout

Min(a, b) == IF a <= b THEN a ELSE b

\* one timer read by every invocation
Elapse_Shared(c, ms) ==
  IF SelectSignal(cfg[c].signal, cfg[c].timeout) = "timeout"
    THEN Min((CHOOSE m \in {env[d].elapsed : d \in Calls} :
                \A d \in Calls : env[d].elapsed <= m) + ms,
             cfg[c].timeout)
    ELSE env[c].elapsed

\* time passes for the timer of line 29 (tracked up to its expiry)
Elapse(c, ms) ==
  IF SelectSignal(cfg[c].signal, cfg[c].timeout) = "timeout"
    THEN Min(env[c].elapsed + ms, cfg[c].timeout)
    ELSE env[c].elapsed

(***************************************************************************)
(* fetchEnhanced, one action per step between two awaits                   *)
(***************************************************************************)
\* lines 17-43
Prepare(c) ==
  /\ st[c].pc = "start"
  /\ st' = [st EXCEPT ![c] = [pc |-> "loop",
                              finalUrl |-> BuildFinalUrl(cfg[c].url, cfg[c].query),
                              options |-> BuildOptions(cfg[c]),
                              attempt |-> 0, lastError |-> NullError]]
  /\ UNCHANGED <<cfg, env, obs>>

\* lines 45-55: the loop test, attempt++ and the call of fetch()
IssueRequest(c) ==
  /\ st[c].pc = "loop"
  /\ LoopGuard(st[c].attempt, cfg[c].retries)
  /\ st' = [st EXCEPT ![c].attempt = @ + 1, ![c].pc = "fetch"]
  /\ obs' = [obs EXCEPT ![c].requests = @ + 1,
                        ![c].sentUrl = UrlToString(st[c].finalUrl),
                        ![c].failure = NullError,
                        ![c].startedAt = env[c].elapsed]
  /\ env' = [env EXCEPT ![c].response = NoResponse]
  /\ UNCHANGED cfg

\* line 90: the loop ended without a throw from the catch block
FallThrough(c) ==
  /\ st[c].pc = "loop"
  /\ ~LoopGuard(st[c].attempt, cfg[c].retries)
  /\ st' = [st EXCEPT ![c].pc = "thrown"]
  /\ obs' = [obs EXCEPT ![c].thrown = @ + 1,
                        ![c].result = [kind |-> "thrown", error |-> st[c].lastError,
                                       reader |-> "none", attempt |-> st[c].attempt]]
  /\ UNCHANGED <<cfg, env>>

\* the catch block throwing the error of the attempt before
ThrownValue_Previous(error, previous) == previous

\* line 81: the value the catch block throws is the error it caught, not
\* the lastError of an earlier attempt
ThrownValue(error, previous) == error

\* lines 70-87: the catch block, entered with the error of this attempt
Catch(c, error) ==
  LET a == st[c].attempt
  IN IF ShouldRetry(a, cfg[c].retries, error)
       THEN /\ st' = [st EXCEPT ![c].lastError = error, ![c].pc = "wait"]
            /\ obs' = [obs EXCEPT ![c].failure = error,
                                  ![c].sleeps = Append(@, BackoffDelay(cfg[c].retryDelay, a))]
       ELSE /\ st' = [st EXCEPT ![c].lastError = error, ![c].pc = "thrown"]
            /\ obs' = [obs EXCEPT
                 ![c].failure = error,
                 ![c].thrown = @ + 1,
                 ![c].result =
                    [kind |-> "thrown",
                     error |-> enhanceError(ThrownValue(error, st[c].lastError),
                                 [url |-> UrlToString(st[c].finalUrl),
                                  method |-> ContextMethod(cfg[c].variant, cfg[c].method, st[c].options),
                                  attempt |-> a]),
                     reader |-> "none", attempt |-> a]]

\* line 55 fulfils, lines 57-58: the status is validated
FetchResolve(c, response) ==
  /\ st[c].pc = "fetch"
  /\ ~SignalAborted(c)
  /\ st' = [st EXCEPT ![c].pc =
              IF validateStatus(cfg[c].validateStatus, response.status)
                THEN "decode" ELSE "errbody"]
  /\ env' = [env EXCEPT ![c].response = response]
  /\ UNCHANGED <<cfg, obs>>

\* line 55 rejects: with the signal's reason once it has aborted, otherwise
\* with a network TypeError or some other error of the transport
FetchReject(c, error) ==
  /\ st[c].pc = "fetch"
  /\ IF SignalAborted(c)
       THEN error = AbortReason(st[c].options.signal, st[c].attempt)
       ELSE error \in {NetworkError(st[c].attempt), GenericError(st[c].attempt)}
  /\ Catch(c, error)
  /\ UNCHANGED <<cfg, env>>

\* lines 59-64: the error body is read and the FetchError thrown
RejectStatus(c) ==
  /\ st[c].pc = "errbody"
  /\ LET p == parseErrorResponse(env[c].response, SignalAborted(c), cfg[c].variant)
     IN Catch(c, IF p.threw
                   THEN IF SignalAborted(c)
                          THEN AbortReason(st[c].options.signal, st[c].attempt)
                          ELSE NetworkError(st[c].attempt)
                   ELSE FetchError(env[c].response.status, p.data, st[c].attempt))
  /\ UNCHANGED <<cfg, env>>

\* line 68: the body reader fulfils and its value is returned
DecodeReturn(c) ==
  /\ st[c].pc = "decode"
  /\ ReaderFulfils(parseResponse(env[c].response, cfg[c].responseType),
                   env[c].response, SignalAborted(c), FALSE)
  /\ st' = [st EXCEPT ![c].pc = "returned"]
  /\ obs' = [obs EXCEPT ![c].result =
               [kind |-> "returned", error |-> NullError,
                reader |-> parseResponse(env[c].response, cfg[c].responseType),
                attempt |-> st[c].attempt]]
  /\ UNCHANGED <<cfg, env>>

\* line 68: the body reader rejects inside the try block
DecodeThrow(c) ==
  /\ st[c].pc = "decode"
  /\ ~ReaderFulfils(parseResponse(env[c].response, cfg[c].responseType),
                    env[c].response, SignalAborted(c), FALSE)
  /\ Catch(c, IF SignalAborted(c)
                THEN AbortReason(st[c].options.signal, st[c].attempt)
                ELSE SyntaxError(st[c].attempt))
  /\ UNCHANGED <<cfg, env>>

\* lines 129-131: the timer of wait(ms) fires and the loop continues
WakeUp(c) ==
  /\ st[c].pc = "wait"
  /\ st' = [st EXCEPT ![c].pc = "loop"]
  /\ env' = [env EXCEPT ![c].elapsed = Elapse(c, obs[c].sleeps[Len(obs[c].sleeps)])]
  /\ obs' = [obs EXCEPT ![c].cancelledInSleep =
               IF /\ st[c].options.signal = "timeout"
                  /\ env[c].elapsed < cfg[c].timeout
                  /\ Elapse(c, obs[c].sleeps[Len(obs[c].sleeps)]) >= cfg[c].timeout
                 THEN st[c].attempt ELSE @]
  /\ UNCHANGED cfg

\* a unit of time passes while fetch() or a body reader is pending
Tick(c) ==
  /\ st[c].pc \in {"fetch", "errbody", "decode"}
  /\ st[c].options.signal = "timeout"
  /\ env[c].elapsed < cfg[c].timeout
  /\ env' = [env EXCEPT ![c].elapsed = @ + 1]
  /\ UNCHANGED <<cfg, st, obs>>

\* the caller aborts the controller whose signal it passed
ExternalAbort(c) ==
  /\ cfg[c].signal
  /\ ~env[c].aborted
  /\ st[c].pc \notin {"returned", "thrown"}
  /\ env' = [env EXCEPT ![c].aborted = TRUE]
  /\ obs' = [obs EXCEPT ![c].cancelledInSleep = IF st[c].pc = "wait" THEN st[c].attempt ELSE @]
  /\ UNCHANGED <<cfg, st>>

Next ==
  \E c \in Calls :
    \/ Prepare(c)
    \/ IssueRequest(c)
    \/ FallThrough(c)
    \/ \E response \in Responses : FetchResolve(c, response)
    \/ \E error \in {NetworkError(st[c].attempt), GenericError(st[c].attempt),
                     AbortReason(st[c].options.signal, st[c].attempt)} : FetchReject(c, error)
    \/ RejectStatus(c)
    \/ DecodeReturn(c)
    \/ DecodeThrow(c)
    \/ WakeUp(c)
    \/ Tick(c)
    \/ ExternalAbort(c)

Spec == Init /\ [][Next]_vars

\* every pending fetch(), body read and sleep eventually completes
FairSpec == Spec /\ WF_vars(Next)

Done(c) == st[c].pc \in {"returned", "thrown"}

TypeOK ==
  \A c \in Calls :
    /\ st[c].pc \in {"start", "loop", "fetch", "errbody", "decode", "wait", "returned", "thrown"}
    /\ st[c].attempt \in 0 .. MaxRetries + 1

(***************************************************************************)
(* Request construction on its own: the inputs of lines 17-40              *)
(***************************************************************************)
HeaderInputs ==
  {NoHeaders,
   [k \in {"Content-Type"} |-> "text/plain"],
   [k \in {"Content-Type"} |-> ""],
   [k \in {"content-type"} |-> "text/plain"],
   [k \in {"Accept"} |-> "*/*"]}

Bodies == {BodyNull, BodyObject, BodyFormData, BodyBlob, BodyString, BodyEmptyString}

BuildConfigs ==
  [url : {UrlPlain}, method : {"GET", "get", "HEAD", "head", "post", "POST", "put"},
   headers : HeaderInputs, body : Bodies, query : {QueryRef},
   retries : {0}, retryDelay : {1}, timeout : {0}, responseType : {"auto"},
   validateStatus : {"default"}, signal : {FALSE}, variant : {"fetch.js"}]

InitBuild == InitWith(BuildConfigs)

NextBuild == \E c \in Calls : Prepare(c) \/ IssueRequest(c)

BuildSpec == InitBuild /\ [][NextBuild]_vars

(***************************************************************************)
(* Failure classes as the specification names them                         *)
(***************************************************************************)
IsCancellation(e) == e.name \in {"AbortError", "TimeoutError"}

IsNetworkClass(e) == e.class = "TypeError"

IsClientStatus(e) == e.hasStatus /\ e.status >= 400 /\ e.status < 500

SpecFatal(e) == IsCancellation(e) \/ IsNetworkClass(e) \/ IsClientStatus(e)

IsRejection(e) == e.class = "FetchError"

\* the response of the current attempt passed the status validator
Accepted(c) ==
  /\ env[c].response # NoResponse
  /\ validateStatus(cfg[c].validateStatus, env[c].response.status)

\* the error without the properties enhanceError attaches
Bare(e) == [e EXCEPT !.url = Undefined, !.method = Undefined, !.attempt = 0]

IsGetOrHead(m) == m \in {"GET", "get", "HEAD", "head"}

(***************************************************************************)
(* Properties                                                              *)
(***************************************************************************)
\* C1: with retries = R >= 0, a call whose attempts all fail with a
\* retryable error issues exactly R + 1 requests, numbered 1..R+1, before it
\* reports failure; no call ever issues an (R+2)-th request.
C1_ExactlyRetriesPlusOneRequests ==
  \A c \in Calls :
    cfg[c].retries >= 0 =>
      /\ obs[c].requests <= cfg[c].retries + 1
      /\ obs[c].requests = st[c].attempt
      /\ (st[c].pc = "thrown" /\ ~SpecFatal(obs[c].failure)) =>
            /\ obs[c].requests = cfg[c].retries + 1
            /\ obs[c].result.attempt = cfg[c].retries + 1

C1_Witness ==
  \E c \in Calls :
    /\ st[c].pc = "thrown"
    /\ cfg[c].retries >= 2
    /\ obs[c].requests = cfg[c].retries + 1
    /\ IsRejection(obs[c].failure) /\ obs[c].failure.status = 500

\* C2: after a non-fatal failure on attempt N <= retries the executor sleeps
\* exactly retryDelay * 2^(N-1) ms before attempt N+1; it does not sleep
\* after the final attempt or after a fatal failure.
C2_BackoffDelays ==
  \A c \in Calls :
    /\ \A i \in 1 .. Len(obs[c].sleeps) : obs[c].sleeps[i] = cfg[c].retryDelay * 2^(i - 1)
    /\ st[c].pc \in {"wait", "loop"} => Len(obs[c].sleeps) = st[c].attempt
    /\ st[c].pc = "wait" => st[c].attempt <= cfg[c].retries /\ ~SpecFatal(obs[c].failure)
    /\ (st[c].pc \in {"fetch", "errbody", "decode", "returned", "thrown"} /\ cfg[c].retries >= 0)
         => Len(obs[c].sleeps) = st[c].attempt - 1

\* C3: with the default validator a 500 response is retried while budget
\* remains; a 404 response is never retried: the call fails at that attempt
\* (attempt 1 when it is the first response) with no backoff sleep.
C3_Status500RetriedStatus404Not ==
  \A c \in Calls :
    (cfg[c].validateStatus = "default" /\ cfg[c].retries >= 0) =>
      LET f == obs[c].failure
      IN /\ env[c].response.status \in {404, 500} => st[c].pc \notin {"decode", "returned"}
         /\ (IsRejection(f) /\ f.status = 404) =>
               /\ st[c].pc = "thrown"
               /\ Len(obs[c].sleeps) = st[c].attempt - 1
               /\ obs[c].result.attempt = st[c].attempt
               /\ obs[c].result.error.status = 404
               /\ (f.origin = 1 => obs[c].requests = 1 /\ obs[c].sleeps = <<>>)
         /\ (IsRejection(f) /\ f.status = 500 /\ st[c].attempt <= cfg[c].retries) =>
               /\ st[c].pc \in {"wait", "loop"}
               /\ Len(obs[c].sleeps) = st[c].attempt
               /\ obs[c].thrown = 0
         /\ (IsRejection(f) /\ f.status = 500 /\ st[c].attempt > cfg[c].retries) =>
               st[c].pc = "thrown"

C3_Witness ==
  \E c \in Calls :
    /\ cfg[c].validateStatus = "default"
    /\ cfg[c].retries >= 2
    /\ st[c].pc = "thrown"
    /\ st[c].attempt = 1
    /\ obs[c].result.error.status = 404

\* C4: a cancellation, by the caller's handle or by the automatic timeout,
\* ends the call at the attempt it interrupts: no sleep and no further
\* attempt follow, and the surfaced error is the cancellation.
C4_CancellationEndsCall ==
  \A c \in Calls :
    IsCancellation(obs[c].failure) =>
      /\ st[c].pc = "thrown"
      /\ IsCancellation(obs[c].result.error)
      /\ obs[c].result.attempt = obs[c].failure.origin

\* C5: a call with retries >= 0 ends at the first of (1) an attempt whose
\* response passes the validator, whose decoded body is then returned,
\* (2) a fatal failure, (3) a failure on attempt retries + 1, and nowhere else.
C5_EndsAtSuccessFatalOrExhaustion ==
  \A c \in Calls :
    cfg[c].retries >= 0 =>
      LET f == obs[c].failure
      IN /\ Accepted(c) => st[c].pc \in {"decode", "returned"}
         /\ st[c].pc = "returned" =>
               Accepted(c) /\ obs[c].thrown = 0 /\ obs[c].result.kind = "returned"
         /\ SpecFatal(f) => st[c].pc = "thrown"
         /\ (f # NullError /\ st[c].attempt = cfg[c].retries + 1) => st[c].pc = "thrown"
         /\ st[c].pc = "thrown" => SpecFatal(f) \/ st[c].attempt = cfg[c].retries + 1

\* C6: every surfaced error carries url = the final URL with the appended
\* query, method = the upper-cased method sent, attempt = the attempt at
\* which the call ended = the number of requests issued.
C6_ErrorCarriesUrlMethodAttempt ==
  \A c \in Calls :
    (st[c].pc = "thrown" /\ cfg[c].retries >= 0) =>
      /\ obs[c].result.error.url = "https://api.example.com/data?ref=app"
      /\ obs[c].result.error.url = obs[c].sentUrl
      /\ obs[c].result.error.method \in {"GET", "POST"}
      /\ obs[c].result.error.method = st[c].options.method
      /\ obs[c].result.error.attempt = obs[c].requests

\* C7: a failed call throws exactly once, and the value thrown is the error
\* of the last attempt made, never one captured on an earlier attempt.
C7_OnlyLastAttemptErrorSurfaces ==
  \A c \in Calls :
    cfg[c].retries >= 0 =>
      /\ obs[c].thrown <= 1
      /\ (st[c].pc = "thrown") <=> (obs[c].thrown = 1)
      /\ st[c].pc = "returned" => obs[c].result.kind = "returned"
      /\ st[c].pc = "thrown" =>
            /\ obs[c].result.kind = "thrown"
            /\ obs[c].result.error.origin = st[c].attempt
            /\ obs[c].result.error.origin = obs[c].requests
            /\ Bare(obs[c].result.error) = obs[c].failure

C7_Witness ==
  \E c \in Calls :
    /\ st[c].pc = "thrown"
    /\ st[c].attempt >= 2
    /\ obs[c].result.error.origin = st[c].attempt

\* C8: a status rejection is fatal iff its status is in [400,500); a rejected
\* status outside the range is retried while budget remains; a status the
\* validator accepts never becomes a rejection, also in [400,600).
C8_RejectionFatalIff4xx ==
  \A c \in Calls :
    LET f == obs[c].failure
    IN /\ IsRejection(f) => ~validateStatus(cfg[c].validateStatus, f.status)
       /\ Accepted(c) => ~IsRejection(f)
       /\ st[c].pc = "returned" => Accepted(c)
       /\ (IsRejection(f) /\ st[c].attempt <= cfg[c].retries) =>
             /\ (st[c].pc = "thrown") <=> (f.status \in 400 .. 499)
             /\ (st[c].pc \in {"wait", "loop"}) <=> (f.status \notin 400 .. 499)

C8_Witness ==
  \E c \in Calls :
    /\ cfg[c].validateStatus = "only304"
    /\ st[c].pc = "wait"
    /\ IsRejection(obs[c].failure)
    /\ obs[c].failure.status = 200

\* C9: a network-class TypeError on attempt N ends the call at attempt N with
\* no sleep and no further request, whatever retries is; an error that is
\* neither a cancellation, nor network-class, nor 4xx is retried while
\* budget remains.
C9_NetworkErrorAlwaysFatal ==
  \A c \in Calls :
    cfg[c].retries >= 0 =>
      LET f == obs[c].failure
      IN /\ IsNetworkClass(f) =>
               /\ st[c].pc = "thrown"
               /\ Len(obs[c].sleeps) = f.origin - 1
               /\ obs[c].requests = f.origin
               /\ obs[c].result.attempt = f.origin
               /\ IsNetworkClass(obs[c].result.error)
         /\ (f # NullError /\ ~SpecFatal(f) /\ st[c].attempt <= cfg[c].retries) =>
               /\ st[c].pc \in {"wait", "loop"}
               /\ Len(obs[c].sleeps) = st[c].attempt

C9_Witness ==
  \E c \in Calls :
    /\ cfg[c].retries >= 2
    /\ st[c].pc = "thrown"
    /\ st[c].attempt = 1
    /\ IsNetworkClass(obs[c].result.error)

\* C10 (as stated): a structured-object body with a method other than
\* GET/HEAD is sent as its JSON text with Content-Type: application/json
\* when the caller set none; a caller-set Content-Type is never overwritten;
\* with GET or HEAD the body is dropped and no header is added.
C10_BodyPolicyAsStated ==
  \A c \in Calls :
    (st[c].pc # "start" /\ cfg[c].body = BodyObject) =>
      LET o == st[c].options
          h == cfg[c].headers
      IN IF IsGetOrHead(cfg[c].method)
           THEN o.body.kind = "absent" /\ o.headers = h
           ELSE /\ o.body.kind = "json" /\ o.body.text = "{\"name\":\"John\"}"
                /\ "Content-Type" \notin DOMAIN h => HeaderGet(o.headers, "Content-Type") = "application/json"
                /\ \A k \in DOMAIN h : HeaderGet(o.headers, k) = h[k]

\* C10 (amended): as above, except that only a non-empty caller-set
\* Content-Type is kept; an empty-string value is replaced by application/json.
C10_BodyPolicy ==
  \A c \in Calls :
    (st[c].pc # "start" /\ cfg[c].body = BodyObject) =>
      LET o == st[c].options
          h == cfg[c].headers
      IN IF IsGetOrHead(cfg[c].method)
           THEN o.body.kind = "absent" /\ o.headers = h
           ELSE /\ o.body.kind = "json" /\ o.body.text = "{\"name\":\"John\"}"
                /\ DOMAIN o.headers = DOMAIN h \cup {"Content-Type"}
                /\ HeaderGet(h, "Content-Type") \in {Undefined, ""}
                     => o.headers["Content-Type"] = "application/json"
                /\ \A k \in DOMAIN h : h[k] # "" => o.headers[k] = h[k]

C10_Witness ==
  \E c \in Calls :
    /\ obs[c].requests = 1
    /\ cfg[c].body = BodyObject
    /\ cfg[c].method = "post"
    /\ HeaderGet(cfg[c].headers, "Content-Type") = "text/plain"
    /\ st[c].options.headers["Content-Type"] = "text/plain"
    /\ st[c].options.body.kind = "json"

\* C11: a body that is not a plain structured object (FormData, Blob, a
\* preformatted string) is handed to the transport unmodified for every
\* method other than GET/HEAD: never JSON-serialized, no Content-Type added.
C11_OpaqueBodyPassedThrough ==
  \A c \in Calls :
    (st[c].pc # "start" /\ cfg[c].body \in {BodyFormData, BodyBlob, BodyString}
       /\ ~IsGetOrHead(cfg[c].method)) =>
      /\ st[c].options.body.kind = "raw"
      /\ st[c].options.body.raw = cfg[c].body
      /\ st[c].options.headers = cfg[c].headers

(***************************************************************************)
(* Response decoding on its own: the inputs of parseResponse               *)
(***************************************************************************)
ContentTypes ==
  {"", "application/json", "text/plain", "text/json", "application/octet-stream",
   "image/png", "application/json; charset=utf-8"}

ResponseTypes == {"auto", "json", "text", "blob", "arraybuffer"}

ParseResponses == [status : {200}, contentType : ContentTypes, body : {"json", "text"}]

ParseConfigs ==
  [url : {UrlPlain}, method : {"GET"}, headers : {NoHeaders}, body : {BodyNull},
   query : {QueryRef}, retries : {0}, retryDelay : {1}, timeout : {0},
   responseType : ResponseTypes, validateStatus : {"default"}, signal : {FALSE},
   variant : Variants]

InitParse == InitWith(ParseConfigs)

NextParse ==
  \E c \in Calls :
    \/ Prepare(c)
    \/ IssueRequest(c)
    \/ \E response \in ParseResponses : FetchResolve(c, response)
    \/ DecodeReturn(c)
    \/ DecodeThrow(c)

ParseSpec == InitParse /\ [][NextParse]_vars

\* the reader the specification prescribes for a response type and a
\* Content-Type header, with the values containing each needle listed
ExpectedReader(responseType, contentType) ==
  LET v == IF responseType = "auto" THEN contentType ELSE responseType
  IN IF v \in {"json", "application/json", "text/json", "application/json; charset=utf-8"}
       THEN "json"
     ELSE IF v \in {"text", "text/plain"} THEN "text"
     ELSE IF v \in {"blob", "application/octet-stream"} THEN "blob"
     ELSE "arrayBuffer"

\* C12: parseResponse picks the reader from one value, the Content-Type
\* header under 'auto' and the explicit responseType otherwise; first match
\* wins in the order json, text, octet-stream/blob, else the raw buffer.
C12_ReaderSelection ==
  \A c \in Calls :
    LET r == env[c].response
        expected == ExpectedReader(cfg[c].responseType, r.contentType)
    IN /\ st[c].pc = "returned" => obs[c].result.reader = expected
       /\ (st[c].pc = "thrown" /\ obs[c].failure.name = "SyntaxError") => expected = "json"
       /\ (st[c].pc = "returned" /\ cfg[c].responseType = "auto" /\ r.contentType = "application/json")
            => obs[c].result.reader = "json"
       /\ (st[c].pc = "returned" /\ cfg[c].responseType = "auto" /\ r.contentType = "text/plain")
            => obs[c].result.reader = "text"
       /\ (st[c].pc = "returned" /\ cfg[c].responseType # "auto")
            => obs[c].result.reader = ExpectedReader(cfg[c].responseType, "")

C12_Witness ==
  \E c \in Calls :
    /\ st[c].pc = "returned"
    /\ cfg[c].responseType = "auto"
    /\ env[c].response.contentType = "text/json"
    /\ obs[c].result.reader = "json"

\* C13: parseErrorResponse never throws: it tries json(), then text(), then
\* returns the null/placeholder payload, so a rejected status always yields a
\* FetchError carrying that status, never a decode exception.
C13_ErrorPayloadNeverThrows ==
  \A c \in Calls :
    LET r == env[c].response
        f == obs[c].failure
    IN (r # NoResponse /\ ~validateStatus(cfg[c].validateStatus, r.status)
          /\ st[c].pc # "errbody") =>
         /\ IsRejection(f)
         /\ f.status = r.status
         /\ f.origin = st[c].attempt
         /\ f.data \in {"json", "text", "null", "message"}
         /\ f.data = "json" => r.body = "json"
         /\ r.body # "json" => f.data \in {"text", "null", "message"}

C13_Witness ==
  \E c \in Calls :
    /\ IsRejection(obs[c].failure)
    /\ env[c].response.body = "text"
    /\ obs[c].failure.data \in {"null", "message"}
    /\ obs[c].failure.status = 500

\* C14: with no caller handle and a non-zero timeout, the timeout is armed
\* per attempt: an attempt is cancelled by it only after the full `timeout`
\* has passed since that attempt's own start.
C14_TimeoutBudgetPerAttempt ==
  \A c \in Calls :
    (st[c].options.signal = "timeout" /\ obs[c].failure.name = "TimeoutError") =>
      env[c].elapsed - obs[c].startedAt >= cfg[c].timeout

\* C15: one cancellation slot: a caller-supplied handle is the only source
\* used and no timeout can cancel that call; without a handle and with a
\* non-zero timeout only the timeout is used; without a handle and with
\* timeout 0 there is no cancellation source.
C15_OneCancellationSlot ==
  \A c \in Calls :
    st[c].pc # "start" =>
      LET s == st[c].options.signal
          f == obs[c].failure
      IN /\ cfg[c].signal => s = "external"
         /\ (~cfg[c].signal /\ cfg[c].timeout # 0) => s = "timeout"
         /\ (~cfg[c].signal /\ cfg[c].timeout = 0) => s = "none"
         /\ cfg[c].signal =>
              /\ f.name # "TimeoutError"
              /\ obs[c].result.error.name # "TimeoutError"
              /\ env[c].elapsed = 0
         /\ ~cfg[c].signal => f.name # "AbortError" /\ obs[c].result.error.name # "AbortError"
         /\ s = "none" => ~IsCancellation(f) /\ ~IsCancellation(obs[c].result.error)

C15_Witness ==
  \E c \in Calls :
    /\ cfg[c].signal
    /\ cfg[c].timeout # 0
    /\ st[c].pc = "thrown"
    /\ st[c].options.signal = "external"
    /\ obs[c].result.error.name = "AbortError"

(***************************************************************************)
(* URL construction on its own: the inputs of lines 17-23                  *)
(***************************************************************************)
MaxQuery == 2

UrlWithQuery ==
  [base |-> "https://api.example.com/data",
   params |-> << [key |-> <<"v">>, value |-> <<"1">>] >>]

QueryValues ==
  {QUndefined, QNull, QZero, QFalse, QString(<<>>),
   QString(<<"x", "&", "y", "=", "z">>), QString(<<"a", " ", "b">>)}

\* the keys of a query object, in insertion order
KeyAt(i) ==
  CASE i = 1 -> <<"a">>
    [] i = 2 -> <<"b", "=">>
    [] i = 3 -> <<"c", "&">>
    [] OTHER -> <<"d">>

QueryOf(values) == [i \in 1 .. Len(values) |-> [key |-> KeyAt(i), value |-> values[i]]]

QueryInputs == {QueryOf(vs) : vs \in UNION {[1 .. n -> QueryValues] : n \in 0 .. MaxQuery}}

UrlConfigs ==
  [url : {UrlPlain, UrlWithQuery}, method : {"GET"}, headers : {NoHeaders},
   body : {BodyNull}, query : QueryInputs, retries : {0}, retryDelay : {1},
   timeout : {0}, responseType : {"auto"}, validateStatus : {"default"},
   signal : {FALSE}, variant : {"fetch.js"}]

InitUrl == InitWith(UrlConfigs)

NextUrl == \E c \in Calls : Prepare(c) \/ IssueRequest(c)

UrlSpec == InitUrl /\ [][NextUrl]_vars

\* a receiver's reading of a serialised query: split at &, then at the
\* first =, then undo the escapes
DecodeToken(t) ==
  CASE t = "%26" -> "&"
    [] t = "%3D" -> "="
    [] t = "%25" -> "%"
    [] t = "%2B" -> "+"
    [] t = "+" -> " "
    [] OTHER -> t

DecodeTokens(ts) == [i \in 1 .. Len(ts) |-> DecodeToken(ts[i])]

\* the position of the first occurrence of sep in ts, 0 when there is none
FirstIndex(ts, sep) ==
  IF \E i \in 1 .. Len(ts) : ts[i] = sep
    THEN CHOOSE i \in 1 .. Len(ts) : ts[i] = sep /\ \A j \in 1 .. i - 1 : ts[j] # sep
    ELSE 0

ParsePair(ts) ==
  LET i == FirstIndex(ts, "=")
  IN IF i = 0 THEN [key |-> DecodeTokens(ts), value |-> <<>>]
     ELSE [key |-> DecodeTokens(SubSeq(ts, 1, i - 1)),
           value |-> DecodeTokens(SubSeq(ts, i + 1, Len(ts)))]

RECURSIVE ParseQuery(_)
ParseQuery(ts) ==
  IF ts = <<>> THEN <<>>
  ELSE LET i == FirstIndex(ts, "&")
       IN IF i = 0 THEN <<ParsePair(ts)>>
          ELSE <<ParsePair(SubSeq(ts, 1, i - 1))>> \o ParseQuery(SubSeq(ts, i + 1, Len(ts)))

\* the text the specification expects for a query value
ExpectedText(v) ==
  CASE v = QNull -> <<"n", "u", "l", "l">>
    [] v = QZero -> <<"0">>
    [] v = QFalse -> <<"f", "a", "l", "s", "e">>
    [] OTHER -> v.s

\* the entries the specification expects: those of the base locator, then
\* every query entry whose value is not undefined, in order
RECURSIVE ExpectedEntries(_, _)
ExpectedEntries(base, query) ==
  IF query = <<>> THEN base
  ELSE ExpectedEntries(IF Head(query).value = QUndefined THEN base
                       ELSE Append(base, [key |-> Head(query).key,
                                          value |-> ExpectedText(Head(query).value)]),
                       Tail(query))

\* C16: the final URL holds, after the query of the base locator and in
\* order, exactly the query entries whose value is not undefined, each once
\* (null, 0, false and '' included), encoded so that a value containing a
\* delimiter such as & does not split into further entries.
C16_QueryEntriesInFinalUrl ==
  \A c \in Calls :
    st[c].pc # "start" =>
      LET tokens == ParamTokens(st[c].finalUrl.params)
          expected == ExpectedEntries(cfg[c].url.params, cfg[c].query)
      IN /\ ParseQuery(tokens) = expected
         /\ obs[c].requests >= 1 =>
              obs[c].sentUrl = cfg[c].url.base
                                 \o (IF expected = <<>> THEN "" ELSE "?" \o Concat(tokens))

C16_Witness ==
  \E c \in Calls :
    /\ obs[c].requests = 1
    /\ cfg[c].url = UrlWithQuery
    /\ Len(cfg[c].query) = 2
    /\ cfg[c].query[1].value = QUndefined
    /\ cfg[c].query[2].value = QString(<<"x", "&", "y", "=", "z">>)
    /\ obs[c].sentUrl = "https://api.example.com/data?v=1&b%3D=x%26y%3Dz"

(***************************************************************************)
(* Two invocations running concurrently                                    *)
(***************************************************************************)
ConcTimeout == 2

ConcResponses ==
  [status : {200, 404, 500}, contentType : {"application/json"}, body : {"json", "text"}]

ConcConfigs ==
  [url : {UrlPlain}, method : {"GET"}, headers : {NoHeaders},
   body : {BodyNull}, query : {QueryRef},
   retries : {-1, 1}, retryDelay : {1, 2},
   timeout : {ConcTimeout}, responseType : {"auto"},
   validateStatus : {"default"}, signal : BOOLEAN, variant : {"fetch.js"}]

InitConc == InitFor({1, 2}, ConcConfigs)

\* the steps of fetchEnhanced, interleaved between the invocations
NextConc ==
  \E c \in Calls :
    \/ Prepare(c)
    \/ IssueRequest(c)
    \/ FallThrough(c)
    \/ \E response \in ConcResponses : FetchResolve(c, response)
    \/ \E error \in {NetworkError(st[c].attempt), GenericError(st[c].attempt),
                     AbortReason(st[c].options.signal, st[c].attempt)} : FetchReject(c, error)
    \/ RejectStatus(c)
    \/ DecodeReturn(c)
    \/ DecodeThrow(c)
    \/ WakeUp(c)
    \/ Tick(c)
    \/ ExternalAbort(c)

ConcSpec == InitConc /\ [][NextConc]_vars

\* what a step of invocation c may do to its own counters, timer and outcome,
\* stated from its own configuration and its own state only
C17_OwnStep(c) ==
  LET a == st[c].attempt
      own == IF a >= 1 THEN cfg[c].retryDelay * Pow2(a - 1) ELSE 0
  IN /\ st'[c].attempt \in {a, a + 1}
     /\ st'[c].attempt <= (IF cfg[c].retries >= 0 THEN cfg[c].retries + 1 ELSE 0)
     /\ obs'[c].requests = st'[c].attempt
     /\ obs'[c].sleeps \in {obs[c].sleeps, Append(obs[c].sleeps, own)}
     /\ obs'[c].sleeps # obs[c].sleeps => a >= 1 /\ a <= cfg[c].retries /\ st'[c].pc = "wait"
     /\ st'[c].lastError # st[c].lastError => st'[c].lastError.origin = a
     /\ env'[c].aborted # env[c].aborted => cfg[c].signal
     /\ env'[c].elapsed # env[c].elapsed =>
          /\ ~cfg[c].signal
          /\ IF st[c].pc = "wait"
               THEN env'[c].elapsed = Min(env[c].elapsed + own, cfg[c].timeout)
               ELSE env'[c].elapsed = env[c].elapsed + 1
     /\ obs'[c].thrown # obs[c].thrown =>
          /\ obs'[c].thrown = obs[c].thrown + 1
          /\ obs'[c].result.attempt = a
          /\ cfg[c].retries >= 0 =>
               /\ obs'[c].result.error.attempt = a
               /\ obs'[c].result.error.origin = a
               /\ obs'[c].result.error.url = UrlToString(BuildFinalUrl(cfg[c].url, cfg[c].query))
     /\ (st'[c].pc = "returned" /\ st[c].pc # "returned") =>
          /\ obs'[c].result.attempt = a
          /\ validateStatus(cfg[c].validateStatus, env[c].response.status)

\* C17: concurrent invocations do not interfere: under every interleaving a
\* step belongs to one invocation, leaves the attempt counter, lastError,
\* timer, sleeps and outcome of the other untouched, and moves its own
\* counters, backoff delays, timer and outcome by its own configuration and
\* its own responses only.
C17_NoInterference ==
  [][\E c \in Calls :
       /\ \A d \in Calls \ {c} : st'[d] = st[d] /\ env'[d] = env[d] /\ obs'[d] = obs[d]
       /\ C17_OwnStep(c)]_vars

C17_Witness ==
  /\ Calls = {1, 2}
  /\ cfg[1].retryDelay # cfg[2].retryDelay
  /\ st[1].pc = "wait" /\ st[1].attempt = 1
  /\ st[2].pc = "fetch" /\ st[2].attempt = 2
  /\ env[2].elapsed > env[1].elapsed
  /\ obs[1].sleeps = <<cfg[1].retryDelay>>
  /\ obs[2].sleeps = <<cfg[2].retryDelay>>

\* C18: a decode error of a response the validator accepted (a JSON syntax
\* error) is handled like any retryable failure: while attempt <= retries the
\* call sleeps the backoff delay and goes on to a further request, and on
\* exhaustion the decode error is thrown with url, method and attempt; an
\* accepted response does not by itself end the retry loop.
C18_DecodeFailureRetried ==
  \A c \in Calls :
    obs[c].failure.name = "SyntaxError" =>
      LET a == st[c].attempt
      IN /\ Accepted(c)
         /\ obs[c].failure.origin = a
         /\ a <= cfg[c].retries =>
              /\ st[c].pc \in {"wait", "loop"}
              /\ obs[c].thrown = 0
              /\ Len(obs[c].sleeps) = a
              /\ obs[c].sleeps[a] = cfg[c].retryDelay * Pow2(a - 1)
              /\ st[c].lastError = obs[c].failure
         /\ a > cfg[c].retries =>
              /\ st[c].pc = "thrown"
              /\ a = cfg[c].retries + 1
              /\ Len(obs[c].sleeps) = a - 1
              /\ Bare(obs[c].result.error) = SyntaxError(a)
              /\ obs[c].result.error.url = obs[c].sentUrl
              /\ obs[c].result.error.method \in {cfg[c].method, toUpperCase(cfg[c].method)}
              /\ obs[c].result.error.attempt = a

C18_Witness ==
  \E c \in Calls :
    /\ st[c].pc = "fetch"
    /\ st[c].attempt = 2
    /\ obs[c].requests = 2
    /\ st[c].lastError = SyntaxError(1)
    /\ obs[c].sleeps = <<cfg[c].retryDelay>>

\* C19: for retries >= 0 the throw after the loop (line 90) is unreachable:
\* the loop test is never found false, every failing call leaves through the
\* enriched throw of the catch block at an attempt in 1..retries+1, and the
\* thrown value is not null and carries url, method and attempt.  Only for
\* retries < 0 (no attempt made) is line 90 reached, throwing the initial
\* null lastError.
C19_FallThroughOnlyWithoutAttempts ==
  \A c \in Calls :
    /\ cfg[c].retries >= 0 =>
         /\ st[c].pc = "loop" => LoopGuard(st[c].attempt, cfg[c].retries)
         /\ st[c].pc = "thrown" =>
              LET e == obs[c].result.error
              IN /\ e # NullError
                 /\ Bare(e) # NullError
                 /\ e.url = obs[c].sentUrl /\ e.url # Undefined
                 /\ e.method # Undefined
                 /\ e.attempt = st[c].attempt
                 /\ e.attempt \in 1 .. cfg[c].retries + 1
    /\ cfg[c].retries < 0 =>
         /\ st[c].pc \in {"start", "loop", "thrown"}
         /\ st[c].attempt = 0 /\ obs[c].requests = 0
         /\ st[c].pc = "loop" => ~LoopGuard(st[c].attempt, cfg[c].retries)
         /\ st[c].pc = "thrown" => obs[c].result.error = NullError

C19_Witness ==
  \E c \in Calls :
    /\ cfg[c].retries >= 1
    /\ st[c].pc = "thrown"
    /\ st[c].attempt = cfg[c].retries + 1
    /\ ~isFatalError(obs[c].failure)
    /\ obs[c].result.error.attempt = cfg[c].retries + 1

\* C20: a cancellation raised during the backoff sleep after attempt N does
\* not interrupt the sleep; attempt N+1 is then started with the cancelled
\* signal, fails with the cancellation error, and the call ends there with
\* attempt = N+1; attempt N+2 is never started.
C20_CancelledInSleepEndsAtNextAttempt ==
  \A c \in Calls :
    LET n == obs[c].cancelledInSleep
    IN n > 0 =>
         /\ st[c].attempt \in {n, n + 1}
         /\ Len(obs[c].sleeps) = n
         /\ st[c].attempt = n => st[c].pc \in {"wait", "loop"} /\ obs[c].thrown = 0
         /\ st[c].attempt = n + 1 =>
              /\ st[c].pc \in {"fetch", "thrown"}
              /\ st[c].pc = "thrown" =>
                   /\ IsCancellation(obs[c].result.error)
                   /\ obs[c].result.error.attempt = n + 1

====
